---- MODULE Spec2Model ----
(***************************************************************************)
(* The browser screens of the case-management client: Dashboard, Payment   *)
(* (upgrade), Register and Login, each a React component over the session  *)
(* provider (useAuth) and the row-storage service (supabase).              *)
(*                                                                         *)
(* One screen component is mounted at a time (the router renders one       *)
(* route), so the useState cells that several components declare under the *)
(* same name (profile, loading, error, email, password) are one variable   *)
(* here: the cell of the mounted component.  A handler together with the   *)
(* effects React runs after the render it causes is one step.  A request   *)
(* to the backend is in flight in net from the call until the awaiting     *)
(* handler resumes: first "sent", then "served" once the backend has       *)
(* processed it.                                                           *)
(*                                                                         *)
(* Text is a sequence of one-character strings.                            *)
(***************************************************************************)
EXTENDS Integers, Sequences, FiniteSets, Bags, TLC

VARIABLES
    authLoading, user,                  \* useAuth(): loading, user
    screen, mounted,                    \* the current route; whether its component has mounted
    dbProfile, dbCases,                 \* backend tables: the user's profile row, the case rows
    net,                                \* the bag of requests in flight
    profile, loading,                   \* Dashboard / Payment / Register / Login state cells
    cases, filteredCases, searchQuery,
    showCreateModal, newCaseTitle, newCaseDescription, creating,
    paymentStep, processing,
    firstName, lastName, email, password, confirmPassword, error,
    toast                               \* the notification the last step raised

sessionVars == <<authLoading, user>>
routeVars   == <<screen, mounted>>
serverVars  == <<dbProfile, dbCases>>
dashVars    == <<cases, filteredCases, searchQuery, showCreateModal,
                 newCaseTitle, newCaseDescription, creating>>
payVars     == <<paymentStep, processing>>
formVars    == <<firstName, lastName, email, password, confirmPassword, error>>
compVars    == <<profile, loading, dashVars, payVars, formVars>>
vars        == <<sessionVars, routeVars, serverVars, net, compVars, toast>>

---------------------------------------------------------------------------
(* Bounds of the model *)

MaxInFlight == 2        \* a user value is published while fewer loads than this are in flight
MaxCases == 2           \* case rows the backend table holds at most
MaxFilterLen == 2       \* length of the case lists the filter is applied to

---------------------------------------------------------------------------
(* Values *)

NoUser  == "none"
UserId  == "u1"
Null    == [null |-> TRUE]      \* JavaScript null: no profile row, no data
NoText  == <<"null">>           \* null where text is expected (a case without description)
NoToast == "none"
Empty   == <<>>                 \* the empty string ''

IsSpace(c) == c = " "

lowerChar(c) ==
    CASE c = "A" -> "a"
      [] c = "B" -> "b"
      [] c = "S" -> "s"
      [] OTHER -> c

toLowerCase(s) == [i \in 1..Len(s) |-> lowerChar(s[i])]

RECURSIVE indexOfFrom(_, _, _)
indexOfFrom(s, t, i) ==
    IF i + Len(t) > Len(s) THEN -1
    ELSE IF SubSeq(s, i + 1, i + Len(t)) = t THEN i
    ELSE indexOfFrom(s, t, i + 1)

includes(s, t) == indexOfFrom(s, t, 0) >= 0

RECURSIVE trimStart(_)
trimStart(s) ==
    IF s # <<>> /\ IsSpace(Head(s)) THEN trimStart(Tail(s)) ELSE s

RECURSIVE trimEnd(_)
trimEnd(s) ==
    IF s # <<>> /\ IsSpace(s[Len(s)]) THEN trimEnd(SubSeq(s, 1, Len(s) - 1)) ELSE s

trim(s) == trimEnd(trimStart(s))

---------------------------------------------------------------------------
(* Rows and requests *)

ProfileRow(pro) == [user_id |-> UserId, first_name |-> "Asha", is_pro |-> pro]

CaseRow(n, t, d) ==
    [id |-> n, user_id |-> UserId, title |-> t, description |-> d,
     status |-> "active", file_count |-> 0, created_at |-> n]

\* A request in flight.  data is a sequence: the rows sent or returned, none for null.
Req(k, rows) == [kind |-> k, phase |-> "sent", result |-> "none", data |-> rows]

Served(r, res, rows) == [r EXCEPT !.phase = "served", !.result = res, !.data = rows]

Remove(s, i) == SubSeq(s, 1, i - 1) \o SubSeq(s, i + 1, Len(s))

Issue(r)       == net (+) SetToBag({r})
Settle(r)      == net (-) SetToBag({r})
Answer(r, r2)  == (net (-) SetToBag({r})) (+) SetToBag({r2})

Pending(k)  == {r \in BagToSet(net) : r.kind = k}
InFlight(k) == BagCardinality([r \in Pending(k) |-> net[r]])

FetchRequests == SetToBag({Req("profile", <<>>), Req("cases", <<>>)})

RECURSIVE orderByCreatedDesc(_)
orderByCreatedDesc(rows) ==
    IF rows = <<>> THEN <<>>
    ELSE LET m == CHOOSE i \in 1..Len(rows) :
                      \A j \in 1..Len(rows) : rows[j].created_at <= rows[i].created_at
         IN  <<rows[m]>> \o orderByCreatedDesc(Remove(rows, m))

---------------------------------------------------------------------------
(* Component state *)

\* The useState initial values of a screen component; l is its loading cell.
CompInit(l) ==
    /\ profile' = Null /\ loading' = l
    /\ cases' = <<>> /\ filteredCases' = <<>> /\ searchQuery' = Empty
    /\ showCreateModal' = FALSE /\ newCaseTitle' = Empty
    /\ newCaseDescription' = Empty /\ creating' = FALSE
    /\ paymentStep' = 1 /\ processing' = FALSE
    /\ firstName' = Empty /\ lastName' = Empty /\ email' = Empty
    /\ password' = Empty /\ confirmPassword' = Empty /\ error' = ""

\* navigate(target): the mounted component is discarded with its state, and the
\* results of its requests in flight are abandoned.
Navigate(target) ==
    /\ screen' = target /\ mounted' = FALSE /\ net' = EmptyBag
    /\ CompInit(FALSE)

---------------------------------------------------------------------------
(* Dashboard *)

\* A filter predicate that looks at the title only.
CaseMatchesTitleOnly(c, q) == includes(toLowerCase(c.title), toLowerCase(q))

\* The filter predicate of the search effect.
CaseMatches(c, q) ==
    \/ includes(toLowerCase(c.title), toLowerCase(q))
    \/ c.description # NoText /\ includes(toLowerCase(c.description), toLowerCase(q))

RECURSIVE arrayFilter(_, _)
arrayFilter(L, q) ==
    IF L = <<>> THEN <<>>
    ELSE (IF CaseMatches(Head(L), q) THEN <<Head(L)>> ELSE <<>>) \o arrayFilter(Tail(L), q)

\* The search effect: the value it gives filteredCases for cases L and query q.
FilterCases(L, q) == IF q # Empty THEN arrayFilter(L, q) ELSE L

\* setCases with a search effect that does not depend on cases.
SetCasesStale(L) == cases' = L /\ UNCHANGED filteredCases

\* setCases followed by the search effect, which depends on [searchQuery, cases].
SetCases(L) == cases' = L /\ filteredCases' = FilterCases(L, searchQuery)

\* A session effect that does not wait for the session to finish loading.
DashboardShouldRedirectEarly(aL, u) == u = NoUser

\* The session effect and the fetch effect.
DashboardShouldRedirect(aL, u) == ~aL /\ u = NoUser
DashboardShouldFetch(u) == u # NoUser

\* Render guards that keep the spinner while there is no profile.
DashboardRenderSpinner(aL, l, u, p) ==
    IF aL \/ l \/ p = Null THEN "spinner"
    ELSE IF u = NoUser THEN "blank"
    ELSE "main"

\* What the component returns.
DashboardRender(aL, l, u, p) ==
    IF aL \/ l THEN "spinner"
    ELSE IF u = NoUser \/ p = Null THEN "blank"
    ELSE "main"

DashboardView ==
    IF screen = "dashboard" /\ mounted
    THEN DashboardRender(authLoading, loading, user, profile) ELSE "none"

DashboardMount ==
    /\ screen = "dashboard" /\ ~mounted
    /\ toast' = NoToast
    /\ UNCHANGED <<sessionVars, serverVars>>
    /\ IF DashboardShouldRedirect(authLoading, user) THEN Navigate("login")
       ELSE /\ UNCHANGED screen /\ mounted' = TRUE /\ CompInit(TRUE)
            /\ net' = IF DashboardShouldFetch(user) THEN net (+) FetchRequests ELSE net

\* The effects the mounted Dashboard runs when useAuth() gives (aL, u).
DashboardOnSession(aL, u) ==
    IF DashboardShouldRedirect(aL, u) THEN Navigate("login")
    ELSE /\ UNCHANGED <<routeVars, compVars>>
         /\ net' = IF DashboardShouldFetch(u) THEN net (+) FetchRequests ELSE net

\* A fetchProfile continuation that reports every error code.
DashboardFetchProfileDoneStrict(r) ==
    /\ screen = "dashboard" /\ mounted
    /\ r \in Pending("profile") /\ r.phase = "served"
    /\ net' = Settle(r)
    /\ IF r.result \in {"error", "PGRST116"}
       THEN toast' = "Failed to load profile" /\ UNCHANGED profile
       ELSE /\ toast' = NoToast
            /\ profile' = IF r.data # <<>> THEN r.data[1] ELSE profile
    /\ UNCHANGED <<sessionVars, routeVars, serverVars, loading, dashVars, payVars, formVars>>

\* fetchProfile after its await.
DashboardFetchProfileDone(r) ==
    /\ screen = "dashboard" /\ mounted
    /\ r \in Pending("profile") /\ r.phase = "served"
    /\ net' = Settle(r)
    /\ IF r.result = "error"
       THEN toast' = "Failed to load profile" /\ UNCHANGED profile
       ELSE /\ toast' = NoToast
            /\ profile' = IF r.data # <<>> THEN r.data[1] ELSE profile
    /\ UNCHANGED <<sessionVars, routeVars, serverVars, loading, dashVars, payVars, formVars>>

\* A fetchCases continuation that empties the list when the load fails.
FetchCasesDoneClearsOnFailure(r) ==
    /\ screen = "dashboard" /\ mounted
    /\ r \in Pending("cases") /\ r.phase = "served"
    /\ net' = Settle(r)
    /\ IF r.result = "error"
       THEN toast' = "Failed to load cases" /\ SetCases(<<>>)
       ELSE toast' = NoToast /\ SetCases(r.data)
    /\ loading' = FALSE
    /\ UNCHANGED <<sessionVars, routeVars, serverVars, profile, searchQuery, showCreateModal,
                   newCaseTitle, newCaseDescription, creating, payVars, formVars>>

\* fetchCases after its await.
FetchCasesDone(r) ==
    /\ screen = "dashboard" /\ mounted
    /\ r \in Pending("cases") /\ r.phase = "served"
    /\ net' = Settle(r)
    /\ IF r.result = "error"
       THEN toast' = "Failed to load cases" /\ UNCHANGED <<cases, filteredCases>>
       ELSE toast' = NoToast /\ SetCases(r.data)
    /\ loading' = FALSE
    /\ UNCHANGED <<sessionVars, routeVars, serverVars, profile, searchQuery, showCreateModal,
                   newCaseTitle, newCaseDescription, creating, payVars, formVars>>

SetSearchQuery(q) ==
    /\ DashboardView = "main"
    /\ searchQuery' = q /\ filteredCases' = FilterCases(cases, q)
    /\ toast' = NoToast
    /\ UNCHANGED <<sessionVars, routeVars, serverVars, net, profile, loading, cases,
                   showCreateModal, newCaseTitle, newCaseDescription, creating,
                   payVars, formVars>>

\* The "New Case" buttons, and the dialog's Cancel button and onOpenChange.
SetShowCreateModal(b) ==
    /\ DashboardView = "main"
    /\ showCreateModal # b
    /\ showCreateModal' = b
    /\ toast' = NoToast
    /\ UNCHANGED <<sessionVars, routeVars, serverVars, net, profile, loading, cases,
                   filteredCases, searchQuery, newCaseTitle, newCaseDescription, creating,
                   payVars, formVars>>

SetNewCaseTitle(t) ==
    /\ DashboardView = "main" /\ showCreateModal
    /\ newCaseTitle' = t
    /\ toast' = NoToast
    /\ UNCHANGED <<sessionVars, routeVars, serverVars, net, profile, loading, cases,
                   filteredCases, searchQuery, showCreateModal, newCaseDescription, creating,
                   payVars, formVars>>

SetNewCaseDescription(d) ==
    /\ DashboardView = "main" /\ showCreateModal
    /\ newCaseDescription' = d
    /\ toast' = NoToast
    /\ UNCHANGED <<sessionVars, routeVars, serverVars, net, profile, loading, cases,
                   filteredCases, searchQuery, showCreateModal, newCaseTitle, creating,
                   payVars, formVars>>

\* A creation guard that does not look at the creating flag.
CreateCaseProceedsAnyTime(u, title, cr) ==
    /\ ~(trim(title) = Empty)
    /\ ~(u = NoUser \/ trim(title) = Empty)

\* A creation guard that tests the title as typed.
CreateCaseProceedsUntrimmed(u, title, cr) ==
    /\ ~(title = Empty \/ cr)
    /\ ~(u = NoUser \/ title = Empty)

\* Whether a click on "Create Case" gets past the button's disabled attribute
\* and the handler's first line.
CreateCaseProceeds(u, title, cr) ==
    /\ ~(trim(title) = Empty \/ cr)
    /\ ~(u = NoUser \/ trim(title) = Empty)

\* A submitted row that carries the title as typed.
NewCaseInsertUntrimmed(u, title, description) ==
    [user_id |-> u, title |-> title,
     description |-> IF trim(description) # Empty THEN trim(description) ELSE NoText,
     status |-> "active", file_count |-> 0]

\* The row handleCreateCase submits.
NewCaseInsert(u, title, description) ==
    [user_id |-> u, title |-> trim(title),
     description |-> IF trim(description) # Empty THEN trim(description) ELSE NoText,
     status |-> "active", file_count |-> 0]

\* handleCreateCase up to its await.
HandleCreateCase ==
    /\ DashboardView = "main" /\ showCreateModal
    /\ Len(dbCases) < MaxCases
    /\ toast' = NoToast
    /\ IF CreateCaseProceeds(user, newCaseTitle, creating)
       THEN /\ creating' = TRUE
            /\ net' = Issue(Req("insert",
                          <<NewCaseInsert(user, newCaseTitle, newCaseDescription)>>))
       ELSE UNCHANGED <<creating, net>>
    /\ UNCHANGED <<sessionVars, routeVars, serverVars, profile, loading, cases, filteredCases,
                   searchQuery, showCreateModal, newCaseTitle, newCaseDescription,
                   payVars, formVars>>

\* A handleCreateCase continuation that resets the dialog whatever the outcome.
CreateCaseDoneResets(r) ==
    /\ screen = "dashboard" /\ mounted
    /\ r \in Pending("insert") /\ r.phase = "served"
    /\ net' = Settle(r)
    /\ IF r.result = "error"
       THEN toast' = "Failed to create case" /\ UNCHANGED <<cases, filteredCases>>
       ELSE SetCases(<<r.data[1]>> \o cases) /\ toast' = "Case created successfully!"
    /\ newCaseTitle' = Empty /\ newCaseDescription' = Empty
    /\ showCreateModal' = FALSE
    /\ creating' = FALSE
    /\ UNCHANGED <<sessionVars, routeVars, serverVars, profile, loading, searchQuery,
                   payVars, formVars>>

\* handleCreateCase after its await.
CreateCaseDone(r) ==
    /\ screen = "dashboard" /\ mounted
    /\ r \in Pending("insert") /\ r.phase = "served"
    /\ net' = Settle(r)
    /\ IF r.result = "error"
       THEN /\ toast' = "Failed to create case"
            /\ UNCHANGED <<cases, filteredCases, newCaseTitle, newCaseDescription,
                           showCreateModal>>
       ELSE /\ SetCases(<<r.data[1]>> \o cases)
            /\ newCaseTitle' = Empty /\ newCaseDescription' = Empty
            /\ showCreateModal' = FALSE
            /\ toast' = "Case created successfully!"
    /\ creating' = FALSE
    /\ UNCHANGED <<sessionVars, routeVars, serverVars, profile, loading, searchQuery,
                   payVars, formVars>>

\* handleLogout: signOut() clears the session, then navigate('/').
HandleLogout ==
    /\ DashboardView = "main"
    /\ user' = NoUser /\ UNCHANGED <<authLoading, serverVars>>
    /\ Navigate("home")
    /\ toast' = "Logged out successfully"

\* The Upgrade button of a free member.
GoUpgrade ==
    /\ DashboardView = "main" /\ ~profile.is_pro
    /\ Navigate("upgrade")
    /\ toast' = NoToast
    /\ UNCHANGED <<sessionVars, serverVars>>

---------------------------------------------------------------------------
(* Payment (the upgrade screen) *)

PaymentShouldRedirect(aL, u) == ~aL /\ u = NoUser
PaymentShouldFetch(u) == u # NoUser

\* Render guards that look at the step before the entitlement.
PaymentRenderStepFirst(aL, l, u, p, step) ==
    IF aL \/ l THEN "spinner"
    ELSE IF u = NoUser \/ p = Null THEN "blank"
    ELSE IF step = 1 THEN "step1"
    ELSE IF step = 2 THEN "step2"
    ELSE IF p.is_pro THEN "alreadyPro"
    ELSE IF step = 3 THEN "step3"
    ELSE "shell"

\* What the component returns.
PaymentRender(aL, l, u, p, step) ==
    IF aL \/ l THEN "spinner"
    ELSE IF u = NoUser \/ p = Null THEN "blank"
    ELSE IF p.is_pro THEN "alreadyPro"
    ELSE IF step = 1 THEN "step1"
    ELSE IF step = 2 THEN "step2"
    ELSE IF step = 3 THEN "step3"
    ELSE "shell"

PaymentView ==
    IF screen = "upgrade" /\ mounted
    THEN PaymentRender(authLoading, loading, user, profile, paymentStep) ELSE "none"

PaymentMount ==
    /\ screen = "upgrade" /\ ~mounted
    /\ toast' = NoToast
    /\ UNCHANGED <<sessionVars, serverVars>>
    /\ IF PaymentShouldRedirect(authLoading, user) THEN Navigate("login")
       ELSE /\ UNCHANGED screen /\ mounted' = TRUE /\ CompInit(TRUE)
            /\ net' = IF PaymentShouldFetch(user) THEN Issue(Req("profile", <<>>)) ELSE net

\* The effects the mounted Payment runs when useAuth() gives (aL, u).
PaymentOnSession(aL, u) ==
    IF PaymentShouldRedirect(aL, u) THEN Navigate("login")
    ELSE /\ UNCHANGED <<routeVars, compVars>>
         /\ net' = IF PaymentShouldFetch(u) THEN Issue(Req("profile", <<>>)) ELSE net

\* fetchProfile after its await.
PaymentFetchProfileDone(r) ==
    /\ screen = "upgrade" /\ mounted
    /\ r \in Pending("profile") /\ r.phase = "served"
    /\ net' = Settle(r)
    /\ IF r.result = "error"
       THEN toast' = "Failed to load profile" /\ UNCHANGED profile
       ELSE /\ toast' = NoToast
            /\ profile' = IF r.data # <<>> THEN r.data[1] ELSE profile
    /\ loading' = FALSE
    /\ UNCHANGED <<sessionVars, routeVars, serverVars, dashVars, payVars, formVars>>

\* Step buttons with a Back button that stays enabled during a payment.
SetPaymentStepAnyTime(n) ==
    /\ \/ n = 2 /\ PaymentView = "step1"
       \/ n = 1 /\ PaymentView = "step2"
    /\ paymentStep' = n
    /\ toast' = NoToast
    /\ UNCHANGED <<sessionVars, routeVars, serverVars, net, profile, loading, dashVars,
                   processing, formVars>>

\* The "Upgrade Now" button of step 1 and the "Back" button of step 2.
SetPaymentStep(n) ==
    /\ \/ n = 2 /\ PaymentView = "step1"
       \/ n = 1 /\ PaymentView = "step2" /\ ~processing
    /\ paymentStep' = n
    /\ toast' = NoToast
    /\ UNCHANGED <<sessionVars, routeVars, serverVars, net, profile, loading, dashVars,
                   processing, formVars>>

\* A payment guard that does not look at the processing flag.
PaymentProceedsAnyTime(u, p, pr) == ~(u = NoUser \/ p = Null)

\* Whether a click on "Complete Payment" gets past the button's disabled
\* attribute and the handler's first line.
PaymentProceeds(u, p, pr) == ~pr /\ ~(u = NoUser \/ p = Null)

\* handlePayment up to the update call: the simulated delay is the time the
\* request spends before the backend serves it.
HandlePayment ==
    /\ PaymentView = "step2"
    /\ toast' = NoToast
    /\ IF PaymentProceeds(user, profile, processing)
       THEN /\ processing' = TRUE
            /\ net' = Issue(Req("update", <<[is_pro |-> TRUE]>>))
       ELSE UNCHANGED <<processing, net>>
    /\ UNCHANGED <<sessionVars, routeVars, serverVars, profile, loading, dashVars,
                   paymentStep, formVars>>

\* The local patch of a successful payment.
PatchPro(p) == IF p # Null THEN [p EXCEPT !.is_pro = TRUE] ELSE Null

\* A handlePayment continuation without the finally block.
PaymentDoneNoFinally(r) ==
    /\ screen = "upgrade" /\ mounted
    /\ r \in Pending("update") /\ r.phase = "served"
    /\ net' = Settle(r)
    /\ IF r.result = "error"
       THEN /\ toast' = "Payment failed. Please try again."
            /\ UNCHANGED <<profile, paymentStep, processing>>
       ELSE /\ profile' = PatchPro(profile)
            /\ paymentStep' = 3
            /\ toast' = "Payment successful! Welcome to Pro!"
            /\ processing' = FALSE
    /\ UNCHANGED <<sessionVars, routeVars, serverVars, loading, dashVars, formVars>>

\* handlePayment after its await.
PaymentDone(r) ==
    /\ screen = "upgrade" /\ mounted
    /\ r \in Pending("update") /\ r.phase = "served"
    /\ net' = Settle(r)
    /\ IF r.result = "error"
       THEN /\ toast' = "Payment failed. Please try again."
            /\ UNCHANGED <<profile, paymentStep>>
       ELSE /\ profile' = PatchPro(profile)
            /\ paymentStep' = 3
            /\ toast' = "Payment successful! Welcome to Pro!"
    /\ processing' = FALSE
    /\ UNCHANGED <<sessionVars, routeVars, serverVars, loading, dashVars, formVars>>

\* The buttons that lead back to the dashboard.
GoDashboard ==
    /\ PaymentView \in {"alreadyPro", "step1", "step2", "step3", "shell"}
    /\ Navigate("dashboard")
    /\ toast' = NoToast
    /\ UNCHANGED <<sessionVars, serverVars>>

---------------------------------------------------------------------------
(* Register and Login *)

AuthScreenShouldRedirect(aL, u) == ~aL /\ u # NoUser

AuthScreenOnSession(aL, u) ==
    IF AuthScreenShouldRedirect(aL, u) THEN Navigate("dashboard")
    ELSE UNCHANGED <<routeVars, net, compVars>>

AuthScreenMount(s) ==
    /\ screen = s /\ ~mounted
    /\ toast' = NoToast
    /\ UNCHANGED <<sessionVars, serverVars>>
    /\ IF AuthScreenShouldRedirect(authLoading, user) THEN Navigate("dashboard")
       ELSE UNCHANGED <<screen, net>> /\ mounted' = TRUE /\ CompInit(FALSE)

RegisterMount == AuthScreenMount("register")
LoginMount    == AuthScreenMount("login")

RegisterView ==
    IF screen = "register" /\ mounted
    THEN (IF authLoading THEN "spinner" ELSE "form") ELSE "none"

\* [^\s@]
EmailChar(c) == ~IsSpace(c) /\ c # "@"

EmailRun(s, a, b) == a <= b /\ \A k \in a..b : EmailChar(s[k])

\* /^[^\s@]+@[^\s@]+\.[^\s@]+$/.test(s)
emailRegexTest(s) ==
    \E i \in 1..Len(s), j \in 1..Len(s) :
        /\ i < j /\ s[i] = "@" /\ s[j] = "."
        /\ EmailRun(s, 1, i - 1) /\ EmailRun(s, i + 1, j - 1) /\ EmailRun(s, j + 1, Len(s))

MinPasswordLength == 6
ValidationOk == "null"

\* A validation that compares the passwords before it measures them.
validateFormMatchFirst(fn, ln, em, pw, cpw) ==
    IF fn = Empty \/ ln = Empty \/ em = Empty \/ pw = Empty \/ cpw = Empty
    THEN "Please fill in all fields"
    ELSE IF pw # cpw
    THEN "Passwords do not match"
    ELSE IF Len(pw) < MinPasswordLength
    THEN "Password must be at least 6 characters long"
    ELSE IF ~emailRegexTest(em)
    THEN "Please enter a valid email address"
    ELSE ValidationOk

validateForm(fn, ln, em, pw, cpw) ==
    IF fn = Empty \/ ln = Empty \/ em = Empty \/ pw = Empty \/ cpw = Empty
    THEN "Please fill in all fields"
    ELSE IF Len(pw) < MinPasswordLength
    THEN "Password must be at least 6 characters long"
    ELSE IF pw # cpw
    THEN "Passwords do not match"
    ELSE IF ~emailRegexTest(em)
    THEN "Please enter a valid email address"
    ELSE ValidationOk

SetRegisterField(f, v) ==
    /\ RegisterView = "form"
    /\ firstName' = IF f = "firstName" THEN v ELSE firstName
    /\ lastName' = IF f = "lastName" THEN v ELSE lastName
    /\ email' = IF f = "email" THEN v ELSE email
    /\ password' = IF f = "password" THEN v ELSE password
    /\ confirmPassword' = IF f = "confirmPassword" THEN v ELSE confirmPassword
    /\ toast' = NoToast
    /\ UNCHANGED <<sessionVars, routeVars, serverVars, net, profile, loading, dashVars,
                   payVars, error>>

\* Register.handleSubmit up to its await; the submit button is disabled while loading.
RegisterSubmit ==
    /\ RegisterView = "form" /\ ~loading
    /\ toast' = NoToast
    /\ LET validationError == validateForm(firstName, lastName, email, password,
                                           confirmPassword)
       IN  IF validationError # ValidationOk
           THEN error' = validationError /\ loading' = FALSE /\ UNCHANGED net
           ELSE /\ error' = "" /\ loading' = TRUE
                /\ net' = Issue(Req("signUp", <<[email |-> email, password |-> password,
                                                 firstName |-> firstName,
                                                 lastName |-> lastName]>>))
    /\ UNCHANGED <<sessionVars, routeVars, serverVars, profile, dashVars, payVars,
                   firstName, lastName, email, password, confirmPassword>>

\* The provider's sign-up operation answers: success, or an error with a message.
ServeSignUp(r) ==
    /\ r \in Pending("signUp") /\ r.phase = "sent"
    /\ \E res \in {"ok", "error"} : net' = Answer(r, Served(r, res, <<>>))
    /\ UNCHANGED <<sessionVars, routeVars, serverVars, compVars, toast>>

\* Register.handleSubmit after its await.
RegisterDone(r) ==
    /\ screen = "register" /\ mounted
    /\ r \in Pending("signUp") /\ r.phase = "served"
    /\ UNCHANGED <<sessionVars, serverVars>>
    /\ IF r.result = "error"
       THEN /\ error' = "provider message"
            /\ toast' = "Registration failed: provider message"
            /\ loading' = FALSE
            /\ net' = Settle(r)
            /\ UNCHANGED <<routeVars, profile, dashVars, payVars, firstName, lastName,
                           email, password, confirmPassword>>
       ELSE /\ toast' = "Registration successful! Please check your email for verification."
            /\ Navigate("dashboard")

LoginView ==
    IF screen = "login" /\ mounted
    THEN (IF authLoading THEN "spinner" ELSE "form") ELSE "none"

\* A login check that also measures the password.
loginValidateWithLength(em, pw) ==
    IF em = Empty \/ pw = Empty THEN "Please fill in all fields"
    ELSE IF Len(pw) < MinPasswordLength
    THEN "Password must be at least 6 characters long"
    ELSE ValidationOk

\* The check at the head of Login.handleSubmit.
loginValidate(em, pw) ==
    IF em = Empty \/ pw = Empty THEN "Please fill in all fields" ELSE ValidationOk

SetLoginField(f, v) ==
    /\ LoginView = "form"
    /\ email' = IF f = "email" THEN v ELSE email
    /\ password' = IF f = "password" THEN v ELSE password
    /\ toast' = NoToast
    /\ UNCHANGED <<sessionVars, routeVars, serverVars, net, profile, loading, dashVars,
                   payVars, firstName, lastName, confirmPassword, error>>

\* Login.handleSubmit up to its await; the submit button is disabled while loading.
LoginSubmit ==
    /\ LoginView = "form" /\ ~loading
    /\ toast' = NoToast
    /\ LET validationError == loginValidate(email, password)
       IN  IF validationError # ValidationOk
           THEN error' = validationError /\ loading' = FALSE /\ UNCHANGED net
           ELSE /\ error' = "" /\ loading' = TRUE
                /\ net' = Issue(Req("signIn", <<[email |-> email, password |-> password]>>))
    /\ UNCHANGED <<sessionVars, routeVars, serverVars, profile, dashVars, payVars,
                   firstName, lastName, email, password, confirmPassword>>

\* The provider's sign-in operation answers: success, or an error with a message.
ServeSignIn(r) ==
    /\ r \in Pending("signIn") /\ r.phase = "sent"
    /\ \E res \in {"ok", "error"} : net' = Answer(r, Served(r, res, <<>>))
    /\ UNCHANGED <<sessionVars, routeVars, serverVars, compVars, toast>>

\* Login.handleSubmit after its await.
LoginDone(r) ==
    /\ screen = "login" /\ mounted
    /\ r \in Pending("signIn") /\ r.phase = "served"
    /\ UNCHANGED <<sessionVars, serverVars>>
    /\ IF r.result = "error"
       THEN /\ error' = "provider message"
            /\ toast' = "Login failed: provider message"
            /\ loading' = FALSE
            /\ net' = Settle(r)
            /\ UNCHANGED <<routeVars, profile, dashVars, payVars, firstName, lastName,
                           email, password, confirmPassword>>
       ELSE /\ toast' = "Login successful!"
            /\ Navigate("dashboard")

---------------------------------------------------------------------------
(* The row-storage service *)

\* select('*').eq('user_id', id).single() on profiles.
ServeProfile(r) ==
    /\ r \in Pending("profile") /\ r.phase = "sent"
    /\ \/ net' = Answer(r, IF dbProfile = Null
                             THEN Served(r, "PGRST116", <<>>)
                             ELSE Served(r, "ok", <<dbProfile>>))
       \/ net' = Answer(r, Served(r, "error", <<>>))
    /\ UNCHANGED <<sessionVars, routeVars, serverVars, compVars, toast>>

\* select('*').eq('user_id', id).order('created_at', { ascending: false }) on cases.
ServeCases(r) ==
    /\ r \in Pending("cases") /\ r.phase = "sent"
    /\ \/ net' = Answer(r, Served(r, "ok", orderByCreatedDesc(dbCases)))
       \/ net' = Answer(r, Served(r, "error", <<>>))
    /\ UNCHANGED <<sessionVars, routeVars, serverVars, compVars, toast>>

\* insert(row).select().single() on cases: the stored row comes back with its id
\* and timestamps.
ServeInsert(r) ==
    /\ r \in Pending("insert") /\ r.phase = "sent"
    /\ \/ /\ Len(dbCases) < MaxCases
          /\ LET n   == Len(dbCases) + 1
                 row == CaseRow(n, r.data[1].title, r.data[1].description)
             IN  /\ dbCases' = Append(dbCases, row)
                 /\ net' = Answer(r, Served(r, "ok", <<row>>))
       \/ /\ net' = Answer(r, Served(r, "error", <<>>))
          /\ UNCHANGED dbCases
    /\ UNCHANGED <<sessionVars, routeVars, dbProfile, compVars, toast>>

\* update({ is_pro: true }).eq('user_id', id) on profiles.
ServeUpdate(r) ==
    /\ r \in Pending("update") /\ r.phase = "sent"
    /\ \/ /\ dbProfile' = PatchPro(dbProfile)
          /\ net' = Answer(r, Served(r, "ok", <<>>))
       \/ /\ net' = Answer(r, Served(r, "error", <<>>))
          /\ UNCHANGED dbProfile
    /\ UNCHANGED <<sessionVars, routeVars, dbCases, compVars, toast>>

---------------------------------------------------------------------------
(* The session provider *)

\* The effects of the mounted screen when useAuth() gives (aL, u).
OnSession(aL, u) ==
    IF mounted /\ screen = "dashboard" THEN DashboardOnSession(aL, u)
    ELSE IF mounted /\ screen = "upgrade" THEN PaymentOnSession(aL, u)
    ELSE IF mounted /\ screen \in {"login", "register"} THEN AuthScreenOnSession(aL, u)
    ELSE UNCHANGED <<routeVars, net, compVars>>

\* The provider finishes loading the session: with a user or without.
AuthResolve(u) ==
    /\ authLoading
    /\ authLoading' = FALSE /\ user' = u
    /\ UNCHANGED serverVars
    /\ toast' = NoToast
    /\ OnSession(FALSE, u)

\* The provider publishes a new current-user value (a refreshed session, or the
\* session's end).
AuthUserChange(u) ==
    /\ ~authLoading
    /\ u # NoUser \/ user # NoUser
    /\ u # NoUser => InFlight("profile") + InFlight("cases") < MaxInFlight
    /\ user' = u
    /\ UNCHANGED <<authLoading, serverVars>>
    /\ toast' = NoToast
    /\ OnSession(FALSE, u)

---------------------------------------------------------------------------
(* Inputs *)

Titles       == {<<" ">>, <<" ", "A", " ">>}
Descriptions == {<<" ">>, <<" ", "b">>}
Queries      == {Empty, <<"s">>}

InitialProfiles == {Null, ProfileRow(FALSE), ProfileRow(TRUE)}
InitialCases    == {<<CaseRow(1, <<"S", "a">>, NoText)>>}

\* The session as a screen finds it: still loading, or loaded with or without a user.
InitSession ==
    /\ authLoading \in BOOLEAN
    /\ user \in {NoUser, UserId}
    /\ authLoading => user = NoUser

CompBlank ==
    /\ profile = Null /\ loading = FALSE
    /\ cases = <<>> /\ filteredCases = <<>> /\ searchQuery = Empty
    /\ showCreateModal = FALSE /\ newCaseTitle = Empty
    /\ newCaseDescription = Empty /\ creating = FALSE
    /\ paymentStep = 1 /\ processing = FALSE
    /\ firstName = Empty /\ lastName = Empty /\ email = Empty
    /\ password = Empty /\ confirmPassword = Empty /\ error = ""

InitAt(s, profiles) ==
    /\ InitSession
    /\ screen = s /\ mounted = FALSE
    /\ dbProfile \in profiles /\ dbCases \in InitialCases
    /\ net = EmptyBag
    /\ CompBlank
    /\ toast = NoToast

Session == \E u \in {NoUser, UserId} : AuthResolve(u) \/ AuthUserChange(u)

---------------------------------------------------------------------------
(* The dashboard screen *)

InitDashboard == InitAt("dashboard", {Null, ProfileRow(FALSE)})

NextDashboard ==
    \/ Session
    \/ DashboardMount
    \/ \E r \in BagToSet(net) : ServeProfile(r)
    \/ \E r \in BagToSet(net) : ServeCases(r)
    \/ \E r \in BagToSet(net) : ServeInsert(r)
    \/ \E r \in BagToSet(net) : DashboardFetchProfileDone(r)
    \/ \E r \in BagToSet(net) : FetchCasesDone(r)
    \/ \E r \in BagToSet(net) : CreateCaseDone(r)
    \/ \E q \in Queries : SetSearchQuery(q)
    \/ \E b \in BOOLEAN : SetShowCreateModal(b)
    \/ \E t \in Titles : SetNewCaseTitle(t)
    \/ \E d \in Descriptions : SetNewCaseDescription(d)
    \/ HandleCreateCase
    \/ HandleLogout
    \/ GoUpgrade

SpecDashboard == InitDashboard /\ [][NextDashboard]_vars

---------------------------------------------------------------------------
(* The search filter on its own: a loaded dashboard and every query *)

FilterTexts == {<<<<"S", "a">>, NoText>>,
                <<<<"b">>, <<"A", "b">>>>,
                <<<<"a", "B">>, Empty>>,
                <<<<"B", "a">>, <<"s", " ", "a">>>>}

FilterQueries == {Empty, <<"a">>, <<"A">>, <<"a", "b">>, <<"A", "B">>, <<"s">>,
                  <<" ">>, <<"S", "A">>, <<"b", "a">>}

FilterTables ==
    UNION {{[i \in 1..n |-> CaseRow(i, f[i][1], f[i][2])] : f \in [1..n -> FilterTexts]}
           : n \in 0..MaxFilterLen}

\* The dashboard of a signed-in user once both loads of its mount have completed.
InitFilter ==
    /\ authLoading = FALSE /\ user = UserId
    /\ screen = "dashboard" /\ mounted = TRUE
    /\ dbProfile = ProfileRow(FALSE) /\ dbCases \in FilterTables
    /\ net = EmptyBag
    /\ profile = dbProfile /\ loading = FALSE
    /\ cases = orderByCreatedDesc(dbCases) /\ filteredCases = cases /\ searchQuery = Empty
    /\ showCreateModal = FALSE /\ newCaseTitle = Empty
    /\ newCaseDescription = Empty /\ creating = FALSE
    /\ paymentStep = 1 /\ processing = FALSE
    /\ firstName = Empty /\ lastName = Empty /\ email = Empty
    /\ password = Empty /\ confirmPassword = Empty /\ error = ""
    /\ toast = NoToast

NextFilter == \E q \in FilterQueries : SetSearchQuery(q)

SpecFilter == InitFilter /\ [][NextFilter]_vars

---------------------------------------------------------------------------
(* The upgrade screen *)

InitPayment == InitAt("upgrade", InitialProfiles)

NextPayment ==
    \/ Session
    \/ PaymentMount
    \/ \E r \in BagToSet(net) : ServeProfile(r)
    \/ \E r \in BagToSet(net) : ServeUpdate(r)
    \/ \E r \in BagToSet(net) : PaymentFetchProfileDone(r)
    \/ \E r \in BagToSet(net) : PaymentDone(r)
    \/ \E n \in 1..2 : SetPaymentStep(n)
    \/ HandlePayment
    \/ GoDashboard

SpecPayment == InitPayment /\ [][NextPayment]_vars

---------------------------------------------------------------------------
(* The registration screen *)

FirstNames == {<<"A">>}
LastNames  == {<<"S">>}
Emails     == {<<"a", "@", "b", ".", "c", "o">>,
               <<"n", "o", "t", "-", "a", "n", "-", "e", "m", "a", "i", "l">>,
               <<"a", "@", "b">>,
               <<"a", " ", "@", "b", ".", "c">>}
Passwords  == {<<"p", "w", "1", "2", "3">>, <<"p", "w", "1", "2", "3", "4">>}
Confirms   == {<<"p", "w", "1", "2", "3", "4">>, <<"p", "w", "1", "2", "3", "5">>}

InitRegister == InitAt("register", {ProfileRow(FALSE)})

NextRegister ==
    \/ Session
    \/ RegisterMount
    \/ \E v \in FirstNames \cup {Empty} : SetRegisterField("firstName", v)
    \/ \E v \in LastNames \cup {Empty} : SetRegisterField("lastName", v)
    \/ \E v \in Emails : SetRegisterField("email", v)
    \/ \E v \in Passwords : SetRegisterField("password", v)
    \/ \E v \in Confirms \cup Passwords : SetRegisterField("confirmPassword", v)
    \/ RegisterSubmit
    \/ \E r \in BagToSet(net) : ServeSignUp(r)
    \/ \E r \in BagToSet(net) : RegisterDone(r)

SpecRegister == InitRegister /\ [][NextRegister]_vars

---------------------------------------------------------------------------
(* The login screen *)

InitLogin == InitAt("login", {ProfileRow(FALSE)})

NextLogin ==
    \/ Session
    \/ LoginMount
    \/ \E v \in Emails \cup {Empty} : SetLoginField("email", v)
    \/ \E v \in Passwords \cup {Empty} : SetLoginField("password", v)
    \/ LoginSubmit
    \/ \E r \in BagToSet(net) : ServeSignIn(r)
    \/ \E r \in BagToSet(net) : LoginDone(r)

SpecLogin == InitLogin /\ [][NextLogin]_vars

---------------------------------------------------------------------------
(* The session gate over the four screens *)

InitGate ==
    \E s \in {"dashboard", "upgrade", "login", "register"} : InitAt(s, InitialProfiles)

NextGate ==
    \/ Session
    \/ DashboardMount \/ PaymentMount \/ RegisterMount \/ LoginMount
    \/ \E r \in BagToSet(net) : ServeProfile(r)
    \/ \E r \in BagToSet(net) : ServeCases(r)
    \/ \E r \in BagToSet(net) : DashboardFetchProfileDone(r)
    \/ \E r \in BagToSet(net) : FetchCasesDone(r)
    \/ \E r \in BagToSet(net) : PaymentFetchProfileDone(r)
    \/ HandleLogout
    \/ GoUpgrade
    \/ GoDashboard

SpecGate == InitGate /\ [][NextGate]_vars

---------------------------------------------------------------------------
(* Properties of the dashboard *)

Spaces(n) == [i \in 1..n |-> " "]
Blank(s)  == \A i \in 1..Len(s) : s[i] = " "

\* t is s without its leading and trailing spaces.
IsTrimOf(t, s) ==
    /\ \E a, b \in 0..Len(s) : s = Spaces(a) \o t \o Spaces(b)
    /\ (t # <<>>) => (t[1] # " " /\ t[Len(t)] # " ")

\* The row of a creation submitted in this step is made of the inputs.
SubmittedRowFromInputs ==
    \A r \in BagToSet(net') :
        (r.kind = "insert" /\ r.phase = "sent" /\ CopiesIn(r, net') > CopiesIn(r, net)) =>
            LET row == r.data[1]
            IN  /\ user # NoUser /\ row.user_id = user
                /\ row.title # Empty /\ IsTrimOf(row.title, newCaseTitle)
                /\ IF Blank(newCaseDescription) THEN row.description = NoText
                   ELSE IsTrimOf(row.description, newCaseDescription)
                /\ row.status = "active" /\ row.file_count = 0

\* A successful creation applied in this step puts the returned row in front.
CreatedRowPrepended ==
    \A r \in BagToSet(net) :
        (CreateCaseDone(r) /\ r.result = "ok") => cases' = <<r.data[1]>> \o cases

\* C3: a valid creation submits a row with the trimmed title, the trimmed
\* description or none when that is empty, status active and file_count 0; when
\* the insert succeeds the case list becomes the returned row followed by the
\* list held at the moment the response is applied.
CreationPrependsSubmittedRow == [][SubmittedRowFromInputs /\ CreatedRowPrepended]_vars

\* A created case with a trimmed title and description heads the list.
CreationPrependsSubmittedRowWitness ==
    /\ toast = "Case created successfully!"
    /\ Len(cases) = 2 /\ cases[1].title = <<"A">> /\ cases[1].description = <<"b">>
    /\ cases[1].status = "active" /\ cases[1].file_count = 0

\* C4: case creation invoked with an empty or whitespace-only title issues no
\* insert request and leaves the case list, the input fields, the creating flag
\* and the open state of the dialog unchanged.
BlankTitleCreatesNothing ==
    [][(HandleCreateCase /\ Blank(newCaseTitle))
         => UNCHANGED <<net, cases, filteredCases, newCaseTitle, newCaseDescription,
                        creating, showCreateModal>>]_vars

\* The dialog is open on a whitespace-only title, nothing in flight.
BlankTitleCreatesNothingWitness ==
    /\ DashboardView = "main" /\ showCreateModal /\ ~creating
    /\ newCaseTitle = <<" ">> /\ newCaseDescription = <<" ", "b">>
    /\ Pending("insert") = {} /\ Len(cases) = 1

\* C9: the case list is ordered newest-first, every case strictly newer than
\* the cases after it, after any sequence of load completions and creations.
CasesNewestFirst ==
    \A i, j \in 1..Len(cases) : i < j => cases[i].created_at > cases[j].created_at

\* C10 as stated: once the profile load has found no row and the case load has
\* completed, the dashboard shows the loading indicator.
ProfileNotFoundShowsSpinner ==
    (/\ screen = "dashboard" /\ mounted /\ ~authLoading /\ user # NoUser
     /\ dbProfile = Null /\ ~loading)
        => DashboardView = "spinner"

\* C10: while the user has no profile row the dashboard never holds a profile
\* and never shows the main view; once the case load has completed it renders
\* nothing (not the loading indicator) for as long as it stays mounted.
ProfileNotFoundRendersNothing ==
    /\ (screen = "dashboard" /\ mounted /\ dbProfile = Null)
          => (profile = Null /\ DashboardView # "main")
    /\ (/\ screen = "dashboard" /\ mounted /\ ~authLoading /\ user # NoUser
        /\ dbProfile = Null /\ ~loading)
          => DashboardView = "blank"

\* The case load has delivered the rows and the profile load found nothing.
ProfileNotFoundRendersNothingWitness ==
    /\ DashboardView = "blank" /\ user # NoUser /\ dbProfile = Null
    /\ ~loading /\ Len(cases) = 1 /\ net = EmptyBag

---------------------------------------------------------------------------
(* Properties of the search filter *)

\* Two characters that are the same letter, whatever their case.
SameLetter(a, b) ==
    \/ a = b
    \/ {a, b} \in {{"a", "A"}, {"b", "B"}, {"s", "S"}}

\* s contains q as a substring, compared case-insensitively.
ContainsCI(s, q) ==
    \E k \in 0..(Len(s) - Len(q)) : \A m \in 1..Len(q) : SameLetter(s[k + m], q[m])

\* The positions of L whose case matches q through its title or its description.
MatchingPositions(L, q) ==
    {i \in 1..Len(L) :
        \/ ContainsCI(L[i].title, q)
        \/ L[i].description # NoText /\ ContainsCI(L[i].description, q)}

\* The k-th smallest member of the set of positions M.
KthOf(M, k) == CHOOSE i \in M : Cardinality({j \in M : j < i}) = k - 1

\* C2: the filtered view is the case list unchanged when the query is empty, and
\* otherwise exactly the cases, in the list's order, whose title or description
\* contains the query case-insensitively, a case without description matching
\* through its title only; it is empty iff no case matches.
FilterYieldsMatchingCases ==
    LET M == MatchingPositions(cases, searchQuery)
    IN  /\ searchQuery = Empty => filteredCases = cases
        /\ searchQuery # Empty =>
              /\ Len(filteredCases) = Cardinality(M)
              /\ \A k \in 1..Len(filteredCases) : filteredCases[k] = cases[KthOf(M, k)]
        /\ (filteredCases = <<>>) <=> (M = {})

\* Of two cases the query keeps the one that matches through its description only.
FilterYieldsMatchingCasesWitness ==
    /\ searchQuery = <<"A", "B">> /\ Len(cases) = 2 /\ Len(filteredCases) = 1
    /\ filteredCases[1].title = <<"b">> /\ filteredCases[1].description = <<"A", "b">>
    /\ cases[2].description = NoText

---------------------------------------------------------------------------
(* Properties of the upgrade screen *)

\* C5: on the upgrade screen paymentStep = 3 implies that the local profile is
\* present with is_pro = true.
StepThreeImpliesPro == paymentStep = 3 => (profile # Null /\ profile.is_pro)

\* C6: once the upgrade screen has finished loading with a local profile whose
\* is_pro is true it renders the "already Pro" view, never the offer or the
\* payment form, whatever paymentStep is.
ProRendersAlreadyPro ==
    (/\ screen = "upgrade" /\ mounted /\ ~authLoading /\ ~loading
     /\ profile # Null /\ profile.is_pro)
        => (PaymentView = "alreadyPro" /\ PaymentView \notin {"step1", "step2"})

\* A Pro profile arrives while the payment form is the current step.
ProRendersAlreadyProWitness ==
    /\ screen = "upgrade" /\ mounted /\ ~authLoading /\ ~loading
    /\ profile # Null /\ profile.is_pro /\ paymentStep = 2

---------------------------------------------------------------------------
(* Properties of the registration form *)

\* The local@domain.tld shape: one "@", no space, something before the "@", and
\* after it a "." with something on both sides.
EmailShape(s) ==
    /\ Cardinality({i \in 1..Len(s) : s[i] = "@"}) = 1
    /\ \A i \in 1..Len(s) : s[i] # " "
    /\ LET at == CHOOSE i \in 1..Len(s) : s[i] = "@"
       IN  at > 1 /\ \E j \in (at + 2)..(Len(s) - 1) : s[j] = "."

\* The message of the first rule the form's fields fail, in the order
\* presence, length, confirmation, email shape.
FirstFailingRule ==
    IF \E f \in {firstName, lastName, email, password, confirmPassword} : Len(f) = 0
    THEN "Please fill in all fields"
    ELSE IF Len(password) <= 5 THEN "Password must be at least 6 characters long"
    ELSE IF password # confirmPassword THEN "Passwords do not match"
    ELSE IF ~EmailShape(email) THEN "Please enter a valid email address"
    ELSE "none"

\* C7: a submission reports the first failing rule only, in the order presence,
\* password length at least 6, confirmation, email shape; when a rule fails the
\* sign-up operation is not called and loading is reset to false; a password of
\* length 5 is rejected and one of length 6 passes the length rule.
RegistrationReportsFirstFailure ==
    [][RegisterSubmit =>
          IF FirstFailingRule # "none"
          THEN error' = FirstFailingRule /\ net' = net /\ ~loading'
          ELSE error' = "" /\ InFlight("signUp") = 0 /\ Pending("signUp")' # {}]_vars

\* The confirmation differs and the email is malformed: only the confirmation
\* is reported.
RegistrationReportsFirstFailureWitness ==
    /\ error = "Passwords do not match" /\ ~loading /\ net = EmptyBag
    /\ Len(password) = 6 /\ password # confirmPassword
    /\ firstName # Empty /\ lastName # Empty
    /\ email = <<"n", "o", "t", "-", "a", "n", "-", "e", "m", "a", "i", "l">>

---------------------------------------------------------------------------
(* Properties of the session gate *)

Protected == {"dashboard", "upgrade"}
AuthOnly  == {"login", "register"}

---------------------------------------------------------------------------
(* Properties of the loaders and of the single-flight operations *)

\* C11: for one screen instance at most one profile load and at most one case
\* load is in flight at any time, even when the current-user value changes
\* while a load is outstanding.
OneLoadInFlight == InFlight("profile") <= 1 /\ InFlight("cases") <= 1

\* C12: case creation is single-flight: at most one insert request of a
\* dashboard instance is outstanding at any time, and creating is true exactly
\* while one is outstanding.
CreationSingleFlight ==
    /\ InFlight("insert") <= 1
    /\ (screen = "dashboard" /\ mounted) => (creating <=> InFlight("insert") = 1)
    /\ creating => (screen = "dashboard" /\ mounted)

\* An insert is outstanding while the dialog still holds a submittable title.
CreationSingleFlightWitness ==
    /\ DashboardView = "main" /\ showCreateModal /\ creating
    /\ newCaseTitle = <<" ", "A", " ">> /\ InFlight("insert") = 1
    /\ \E r \in Pending("insert") : r.phase = "sent"

\* C13: at most one profile update to Pro is outstanding at any time,
\* processing is true exactly while one is, and a payment operation is only
\* ever in flight while paymentStep = 2.
PaymentSingleFlight ==
    /\ InFlight("update") <= 1
    /\ (screen = "upgrade" /\ mounted) => (processing <=> InFlight("update") = 1)
    /\ processing => (screen = "upgrade" /\ mounted)
    /\ InFlight("update") >= 1 => paymentStep = 2

\* The update has been served and the payment form is still processing.
PaymentSingleFlightWitness ==
    /\ PaymentView = "step2" /\ processing
    /\ \E r \in Pending("update") : r.phase = "served" /\ r.result = "ok"

\* C14: while the upgrade screen stays mounted the step changes only from 1 to
\* 2 by the advance action, from 2 to 1 by Back while no payment is in flight,
\* and from 2 to 3 by a successful payment; 1 never becomes 3 and 3 never
\* changes.
StepTransitions ==
    [][(screen = "upgrade" /\ mounted /\ mounted' /\ paymentStep' # paymentStep) =>
          \/ /\ paymentStep = 1 /\ paymentStep' = 2
             /\ PaymentView = "step1" /\ net' = net
          \/ /\ paymentStep = 2 /\ paymentStep' = 1
             /\ ~processing /\ InFlight("update") = 0 /\ net' = net
          \/ /\ paymentStep = 2 /\ paymentStep' = 3
             /\ \E r \in Pending("update") :
                   r.phase = "served" /\ r.result = "ok" /\ net' = Settle(r)]_vars

\* The flow has arrived at step 3 by a payment.
StepTransitionsWitness ==
    /\ screen = "upgrade" /\ mounted /\ paymentStep = 3 /\ ~processing
    /\ toast = "Payment successful! Welcome to Pro!"

\* C15: when the profile update of a payment fails the step stays 2, the local
\* profile is unchanged with is_pro = false, processing is cleared, the payment
\* form with its action enabled is shown again, and no retry is in flight.
PaymentFailureRetryable ==
    [][\A r \in BagToSet(net) :
          (PaymentDone(r) /\ r.result = "error") =>
              /\ paymentStep = 2 /\ paymentStep' = 2
              /\ profile' = profile /\ profile # Null /\ ~profile.is_pro
              /\ ~processing' /\ Pending("update")' = {}
              /\ PaymentView' = "step2"
              /\ PaymentProceeds(user', profile', processing')]_vars

\* A failed payment has been reported and the form is idle again.
PaymentFailureRetryableWitness ==
    /\ toast = "Payment failed. Please try again."
    /\ PaymentView = "step2" /\ ~processing /\ Pending("update") = {}

\* C20: after a payment succeeds in step 2 the upgrade screen displays the
\* step 3 success view.
SuccessShowsStepThree ==
    [][\A r \in BagToSet(net) :
          (PaymentDone(r) /\ r.result = "ok") => PaymentView' = "step3"]_vars

---------------------------------------------------------------------------
(* Properties of the failure paths *)

\* C16: when the insert of a case creation fails the case list is unchanged,
\* the dialog and the title and description inputs are left as they are, the
\* creating flag is cleared and the create action can be invoked again.
CreationFailureRetryable ==
    [][\A r \in BagToSet(net) :
          (CreateCaseDone(r) /\ r.result = "error") =>
              /\ cases' = cases /\ filteredCases' = filteredCases
              /\ showCreateModal' = showCreateModal
              /\ newCaseTitle' = newCaseTitle
              /\ newCaseDescription' = newCaseDescription
              /\ ~creating' /\ Pending("insert")' = {}
              /\ ~Blank(newCaseTitle') =>
                    CreateCaseProceeds(user', newCaseTitle', creating')]_vars

\* A failed creation has been reported: the dialog is open on the typed inputs.
CreationFailureRetryableWitness ==
    /\ toast = "Failed to create case"
    /\ DashboardView = "main" /\ showCreateModal /\ ~creating
    /\ newCaseTitle = <<" ", "A", " ">> /\ newCaseDescription = <<" ", "b">>
    /\ Len(cases) = 1

\* C17: a case load that succeeds replaces the case list by exactly the returned
\* rows, one that fails leaves the list untouched, and in both outcomes loading
\* is false afterwards.
CaseLoadOutcome ==
    [][\A r \in BagToSet(net) :
          FetchCasesDone(r) =>
              /\ r.result \in {"ok", "error"}
              /\ r.result = "ok" => cases' = r.data
              /\ r.result = "error" => cases' = cases
              /\ ~loading']_vars

\* A later load has failed and the two cases held before are still there.
CaseLoadOutcomeWitness ==
    /\ toast = "Failed to load cases" /\ Len(cases) = 2 /\ ~loading
    /\ screen = "dashboard" /\ mounted

\* C18: a profile load that returns the no-matching-row code raises no
\* notification and leaves the local profile as it was; any other error raises
\* the failure notification and leaves the profile as it was; a load returning
\* a row replaces the local profile by that row.
ProfileLoadOutcome ==
    [][\A r \in BagToSet(net) :
          (DashboardFetchProfileDone(r) \/ PaymentFetchProfileDone(r)) =>
              /\ r.result \in {"ok", "PGRST116", "error"}
              /\ r.result = "PGRST116" => (toast' = NoToast /\ profile' = profile)
              /\ r.result = "error" =>
                    (toast' = "Failed to load profile" /\ profile' = profile)
              /\ r.result = "ok" =>
                    (Len(r.data) = 1 /\ profile' = r.data[1] /\ toast' = NoToast)]_vars

\* Both loads of a user without a profile row have completed without a notification.
ProfileLoadOutcomeWitness ==
    /\ screen = "dashboard" /\ mounted /\ user # NoUser /\ ~loading
    /\ dbProfile = Null /\ profile = Null /\ net = EmptyBag /\ toast = NoToast

---------------------------------------------------------------------------
(* Properties of the login form *)

\* C19 as stated: a login submit with an empty field, with a password shorter
\* than 6 characters, or with an email that is not of the local@domain.tld
\* shape is rejected with an inline error and sign-in is not called.
LoginAppliesRegistrationRules ==
    [][LoginSubmit =>
          ((Len(email) = 0 \/ Len(password) <= 5 \/ ~EmailShape(email))
              => (error' # "" /\ net' = net))]_vars

\* C19: the login form applies the presence rule only: a submit with an empty
\* email or password is rejected with the inline error, sign-in is not called
\* and loading is reset; any other submit, whatever the length of the password
\* and the shape of the email, calls sign-in with the two fields as typed.
LoginChecksPresenceOnly ==
    [][LoginSubmit =>
          IF Len(email) = 0 \/ Len(password) = 0
          THEN error' = "Please fill in all fields" /\ net' = net /\ ~loading'
          ELSE /\ error' = "" /\ loading' /\ InFlight("signIn") = 0
               /\ \E r \in Pending("signIn")' :
                     /\ r.phase = "sent"
                     /\ r.data[1].email = email /\ r.data[1].password = password]_vars

\* Sign-in has been called with a password of five characters.
LoginChecksPresenceOnlyWitness ==
    /\ LoginView = "form" /\ loading /\ error = ""
    /\ \E r \in Pending("signIn") :
          /\ Len(r.data[1].password) = 5
          /\ r.data[1].email = <<"a", "@", "b", ".", "c", "o">>

---------------------------------------------------------------------------
(* Properties of the case list's identities *)

\* C21: the local case list never contains two entries with the same case id,
\* under any interleaving of a creation response with the responses of case
\* loads issued before or after the insert reached the backend.
NoDuplicateCaseIds ==
    \A i, j \in 1..Len(cases) : cases[i].id = cases[j].id => i = j

====
